---- MODULE Spec2Model ----
(***************************************************************************)
(* Change detection between two epochs of elevation rasters                *)
(* (src/utils/compare.py): RasterComparison.difference / changed /         *)
(* copy_file / compare and the multi-processing driver multi_run.          *)
(*                                                                         *)
(* Pixel values are the heights of the raster ("(m, n) float" in the       *)
(* docstring of difference); they are modelled as exact integers in a      *)
(* fixed unit, so subtraction, sum and comparison are exact.  A mean and a *)
(* fraction are kept as the pair <<numerator, denominator>>.               *)
(***************************************************************************)
EXTENDS Integers, Sequences, FiniteSets, TLC

\* ------------------------------------------------------------------ bounds
\* pixel values of a raster range over 0..MaxVal
MaxVal == 2
\* a difference array handed to changed() has at most MaxPixels pixels
MaxPixels == 3
\* at most MaxFaults file operations of the archive fail in one run
MaxFaults == 1
\* multiprocessing.cpu_count() of the machine the run is on
CpuCount == 2

VARIABLES
    refs,          \* reference_tif_dir: relative path -> raster file
    tgts,          \* target_tif_dir: relative path -> raster file
    metrics,       \* cfg.compare.metrics: metric name -> threshold(s)
    copy_tif,      \* cfg.compare.copy_tif
    copy_las,      \* cfg.compare.copy_las
    threads,       \* cfg.threads
    pc,            \* position of multi_run (the parent process)
    args,          \* the enumerated (path_reference, path_target) pairs
    targets_only,  \* stems of the target tiles without a reference tile
    task,          \* pool: pair -> "queued" | "running" | "finished"
    outq,          \* pool: results in completion order, not yet iterated
    counter,       \* multi_run's counter
    file_changed,  \* lines written to changed.txt
    reported,      \* what the parent process logged for each pair
    summary,       \* the run-level summary line: <<>> or <<counter, len(args)>>
    archive,       \* files copied under save_tif_dir / save_las_dir
    faults,        \* number of failed archive file operations so far
    calls,         \* the (path_reference, path_target) compare() was invoked with
    fn,            \* function-level specifications: the call made and its result
    runs,          \* pair -> number of times a worker ran compare() on it
    handled,       \* pair -> number of its results the loop of multi_run took
    writes,        \* the write() calls made on changed.txt, in order
    merger         \* the run of src/merge.py: its files, its pairs and its tasks

\* what the run keeps of each pair's task and of the writes on the file
hist == <<runs, handled, writes>>

vars == <<merger, refs, tgts, metrics, copy_tif, copy_las, threads, pc, args, targets_only,
          task, outq, counter, file_changed, reported, summary, archive, faults, calls, fn,
          hist>>

\* the state outside a run of src/merge.py
NoMerger == [pc |-> "none"]

\* ------------------------------------------------------------------ rasters
\* A raster file as gdal.Open shows it: RasterXSize, RasterYSize, band 1 read
\* row by row (ReadAsArray), and the band's nodata value: {} when
\* GetNoDataValue() is None, else {value}.
Pixels == 0..MaxVal

NoDataValues == {{}, {0}, {MaxVal}}

Raster(w, h, a, nd) == [RasterXSize |-> w, RasterYSize |-> h, array |-> a, nodata |-> nd]

RastersOfShape(w, h) ==
    {Raster(w, h, a, nd) : a \in [1..(w * h) -> Pixels], nd \in NoDataValues}

\* A path is a root directory and a relative path <<subdirectory, stem, suffix>>.
Path(root, rel) == [root |-> root, rel |-> rel]

\* Path.stem
Stem(rel) == rel[2]

\* Path.with_suffix
with_suffix(rel, suffix) == <<rel[1], rel[2], suffix>>

\* the files of a root directory
Files(root) == IF root = "reference" THEN refs ELSE tgts

is_file(path) == path.rel \in DOMAIN Files(path.root)

gdalOpen(path) == Files(path.root)[path.rel]

\* ------------------------------------------------------------------ difference
None == [kind |-> "None", array |-> <<>>]

Array(a) == [kind |-> "array", array |-> a]

AssertionError == [kind |-> "AssertionError", array |-> <<>>]

Abs(x) == IF x < 0 THEN 0 - x ELSE x

\* the two nodata masks intersected (bitwise_and) instead of united
MaskedDifference_and(reference, target) ==
    LET array_reference == reference.array
        array_target == target.array
        nodata_mask == [i \in DOMAIN array_reference |->
                          /\ array_reference[i] \in reference.nodata
                          /\ array_target[i] \in target.nodata]
        zeroed_reference == [i \in DOMAIN array_reference |->
                               IF nodata_mask[i] THEN 0 ELSE array_reference[i]]
        zeroed_target == [i \in DOMAIN array_target |->
                            IF nodata_mask[i] THEN 0 ELSE array_target[i]]
    IN  [i \in DOMAIN array_reference |-> Abs(zeroed_target[i] - zeroed_reference[i])]

\* the target array not zeroed under the mask (line 87 left out)
MaskedDifference_target_kept(reference, target) ==
    LET array_reference == reference.array
        array_target == target.array
        nodata_mask == [i \in DOMAIN array_reference |->
                          \/ array_reference[i] \in reference.nodata
                          \/ array_target[i] \in target.nodata]
        zeroed_reference == [i \in DOMAIN array_reference |->
                               IF nodata_mask[i] THEN 0 ELSE array_reference[i]]
    IN  [i \in DOMAIN array_reference |-> Abs(array_target[i] - zeroed_reference[i])]

\* lines 84-89: the union of the two nodata masks, both arrays zeroed under it,
\* then the absolute difference
MaskedDifference(reference, target) ==
    LET array_reference == reference.array
        array_target == target.array
        nodata_mask == [i \in DOMAIN array_reference |->
                          \/ array_reference[i] \in reference.nodata
                          \/ array_target[i] \in target.nodata]
        zeroed_reference == [i \in DOMAIN array_reference |->
                               IF nodata_mask[i] THEN 0 ELSE array_reference[i]]
        zeroed_target == [i \in DOMAIN array_target |->
                            IF nodata_mask[i] THEN 0 ELSE array_target[i]]
    IN  [i \in DOMAIN array_reference |-> Abs(zeroed_target[i] - zeroed_reference[i])]

\* difference() without the assertion of lines 72-73
difference_no_assert(path_reference, path_target) ==
    IF ~is_file(path_target)
    THEN None
    ELSE LET reference == gdalOpen(path_reference)
             target == gdalOpen(path_target)
         IN  IF \/ (reference.RasterXSize = 1 /\ reference.RasterYSize = 1)
                \/ (target.RasterXSize = 1 /\ target.RasterYSize = 1)
             THEN Array(<<0>>)
             ELSE Array(MaskedDifference(reference, target))

\* RasterComparison.difference(path_reference, path_target)
difference(path_reference, path_target) ==
    IF ~is_file(path_target)
    THEN None
    ELSE LET reference == gdalOpen(path_reference)
             target == gdalOpen(path_target)
         IN  IF \/ (reference.RasterXSize = 1 /\ reference.RasterYSize = 1)
                \/ (target.RasterXSize = 1 /\ target.RasterYSize = 1)
             THEN Array(<<0>>)
             ELSE IF ~(/\ reference.RasterXSize = target.RasterXSize
                       /\ reference.RasterYSize = target.RasterYSize)
             THEN AssertionError
             ELSE Array(MaskedDifference(reference, target))

\* ------------------------------------------------------------------ changed
MetricNames == {"mean", "maxima", "sum", "count_larger_than", "percentage_larger_than"}

RECURSIVE SumTo(_, _)
SumTo(a, n) == IF n = 0 THEN 0 ELSE a[n] + SumTo(a, n - 1)

\* np.sum
Sum(a) == SumTo(a, Len(a))

\* np.max
Max(a) == CHOOSE x \in {a[i] : i \in DOMAIN a} : \A i \in DOMAIN a : a[i] <= x

\* the mean over the pixels that are not zero: the zeroed pixels left out
Mean_nonzero(a) == <<Sum(a), Cardinality({i \in DOMAIN a : a[i] # 0})>>

\* np.mean, as the fraction <<sum, size>>
Mean(a) == <<Sum(a), Len(a)>>

\* np.sum(a > value)
CountLargerThan(a, value) == Cardinality({i \in DOMAIN a : a[i] > value})

\* fraction > integer threshold
FractionGT(q, threshold) == q[1] > threshold * q[2]

\* fraction > fraction
FractionGTFraction(q, r) == q[1] * r[2] > r[1] * q[2]

\* every statistic compared with >= instead of >
MetricVerdict_ge(self_metrics, name, a) ==
    CASE name = "mean" -> Mean(a)[1] >= self_metrics["mean"] * Mean(a)[2]
      [] name = "maxima" -> Max(a) >= self_metrics["maxima"]
      [] name = "sum" -> Sum(a) >= self_metrics["sum"]
      [] name = "count_larger_than" ->
            CountLargerThan(a, self_metrics["count_larger_than"][1])
                >= self_metrics["count_larger_than"][2]
      [] name = "percentage_larger_than" ->
            CountLargerThan(a, self_metrics["percentage_larger_than"][1])
                    * self_metrics["percentage_larger_than"][2][2]
                >= self_metrics["percentage_larger_than"][2][1] * Len(a)

\* the pixels equal to the value threshold counted too
MetricVerdict_count_equal(self_metrics, name, a) ==
    CASE name = "mean" -> FractionGT(Mean(a), self_metrics["mean"])
      [] name = "maxima" -> Max(a) > self_metrics["maxima"]
      [] name = "sum" -> Sum(a) > self_metrics["sum"]
      [] name = "count_larger_than" ->
            CountLargerThan(a, self_metrics["count_larger_than"][1] - 1)
                > self_metrics["count_larger_than"][2]
      [] name = "percentage_larger_than" ->
            FractionGTFraction(
                <<CountLargerThan(a, self_metrics["percentage_larger_than"][1] - 1), Len(a)>>,
                self_metrics["percentage_larger_than"][2])

\* the verdict of one metric on a difference array (lines 116-132)
MetricVerdict(self_metrics, name, a) ==
    CASE name = "mean" -> FractionGT(Mean(a), self_metrics["mean"])
      [] name = "maxima" -> Max(a) > self_metrics["maxima"]
      [] name = "sum" -> Sum(a) > self_metrics["sum"]
      [] name = "count_larger_than" ->
            CountLargerThan(a, self_metrics["count_larger_than"][1])
                > self_metrics["count_larger_than"][2]
      [] name = "percentage_larger_than" ->
            FractionGTFraction(
                <<CountLargerThan(a, self_metrics["percentage_larger_than"][1]), Len(a)>>,
                self_metrics["percentage_larger_than"][2])

NoVerdict == [kind |-> "None", dict |-> <<>>]

Verdict(d) == [kind |-> "dict", dict |-> d]

\* changed() with an empty verdict, not None, for the no-match sentinel
changed_empty_for_none(self_metrics, difference_array) ==
    IF difference_array = None
    THEN Verdict(<<>>)
    ELSE Verdict([name \in MetricNames \cap DOMAIN self_metrics |->
                    MetricVerdict(self_metrics, name, difference_array.array)])

\* RasterComparison.changed(difference_array), self.metrics given
changed(self_metrics, difference_array) ==
    IF difference_array = None
    THEN NoVerdict
    ELSE Verdict([name \in MetricNames \cap DOMAIN self_metrics |->
                    MetricVerdict(self_metrics, name, difference_array.array)])

\* ------------------------------------------------------------------ copy_file
\* What the file system does to one copy_file call: the outcome of the two
\* mkdir calls and of each shutil.copyfile.
Caught == {"SameFileError", "IsADirectoryError", "PermissionError"}

\* The rasters were opened just before, so a missing source is an outcome of the
\* point-cloud copy only.
CopyOutcomes(filetype) ==
    {"ok"} \cup Caught \cup (IF filetype = "las" THEN {"FileNotFoundError"} ELSE {})

CopyEnvs(filetype) ==
    [mkdir : {"ok", "PermissionError"}, reference : CopyOutcomes(filetype),
     target : CopyOutcomes(filetype)]

NoFault == [mkdir |-> "ok", reference |-> "ok", target |-> "ok"]

FaultCount(e) ==
    (IF e.mkdir = "ok" THEN 0 ELSE 1) + (IF e.reference = "ok" THEN 0 ELSE 1)
        + (IF e.target = "ok" THEN 0 ELSE 1)

\* the environments of one compare call with at most MaxFaults failing operations
Envs ==
    UNION {IF FaultCount(e.tif) + FaultCount(e.las) <= MaxFaults THEN {e} ELSE {} :
             e \in [tif : CopyEnvs("tif"), las : CopyEnvs("las")]}

NoFaults == [tif |-> NoFault, las |-> NoFault]

Copy(filetype, side, rel) == [filetype |-> filetype, side |-> side, rel |-> rel]

\* a failed file operation of copy_file: op is "mkdir", or the side copied
Failure(filetype, op, kind) == [filetype |-> filetype, op |-> op, kind |-> kind]

Copied(raised, copied, errors, failed_) ==
    [raised |-> raised, copied |-> copied, errors |-> errors,
     nfaults |-> Cardinality(failed_), failed |-> failed_]

\* copy_file() with a try block of its own around each of the two copies: a
\* caught failure of the reference copy does not keep the target copy back
copy_file_each_tried(path_reference, path_target, filetype, e) ==
    LET stem == path_reference.rel
        reference_copy == Copy(filetype, "reference", stem)
        target_copy == Copy(filetype, "target", stem)
        reference_failed == IF e.reference = "ok" THEN {}
                            ELSE {Failure(filetype, "reference", e.reference)}
        target_failed == IF e.target = "ok" THEN {}
                         ELSE {Failure(filetype, "target", e.target)}
        reference_copied == IF e.reference = "ok" THEN {reference_copy} ELSE {}
        target_copied == IF e.target = "ok" THEN {target_copy} ELSE {}
    IN  IF filetype \notin {"tif", "las"}
        THEN Copied("ValueError", {}, 0, {})
        ELSE IF e.mkdir # "ok"
        THEN Copied(e.mkdir, {}, 0, {Failure(filetype, "mkdir", e.mkdir)})
        ELSE IF e.reference \notin Caught \cup {"ok"}
        THEN Copied(e.reference, {}, 0, reference_failed)
        ELSE IF e.target \notin Caught \cup {"ok"}
        THEN Copied(e.target, reference_copied, Cardinality(reference_failed),
                    reference_failed \cup target_failed)
        ELSE Copied("none", reference_copied \cup target_copied,
                    Cardinality(reference_failed \cup target_failed),
                    reference_failed \cup target_failed)

\* RasterComparison.copy_file(path_reference, path_target, filetype); e is what
\* the file system does.  Result: the exception that escapes ("none" if none),
\* the copies made, the log.error lines, the number of failed operations.
copy_file(path_reference, path_target, filetype, e) ==
    LET stem == path_reference.rel
        reference_copy == Copy(filetype, "reference", stem)
        target_copy == Copy(filetype, "target", stem)
    IN  IF filetype \notin {"tif", "las"}
        THEN Copied("ValueError", {}, 0, {})
        ELSE IF e.mkdir # "ok"
        THEN Copied(e.mkdir, {}, 0, {Failure(filetype, "mkdir", e.mkdir)})
        ELSE IF e.reference # "ok"
        THEN IF e.reference \in Caught
             THEN Copied("none", {}, 1, {Failure(filetype, "reference", e.reference)})
             ELSE Copied(e.reference, {}, 0, {Failure(filetype, "reference", e.reference)})
        ELSE IF e.target # "ok"
        THEN IF e.target \in Caught
             THEN Copied("none", {reference_copy}, 1,
                         {Failure(filetype, "target", e.target)})
             ELSE Copied(e.target, {reference_copy}, 0,
                         {Failure(filetype, "target", e.target)})
        ELSE Copied("none", {reference_copy, target_copy}, 0, {})

\* ------------------------------------------------------------------ compare
\* What a task hands back to the parent process: the returned tuple
\* (as_int, changed_, stem), or the exception that ended the task.
Return(as_int, changed_, stem) ==
    [exception |-> "none", as_int |-> as_int, changed_ |-> changed_, stem |-> stem]

Raise(exception, stem) ==
    [exception |-> exception, as_int |-> 0, changed_ |-> NoVerdict, stem |-> stem]

\* what a call of compare did: its result, the copies made, the log.error lines,
\* the failed file operations and the filetypes copy_file was invoked with
Outcome(ret, copied, errors, failed_, invoked_) ==
    [ret |-> ret, copied |-> copied, errors |-> errors, nfaults |-> Cardinality(failed_),
     failed |-> failed_, invoked |-> invoked_]

\* a call of compare that does not reach copy_file
NoCopy(ret) == Outcome(ret, {}, 0, {}, {})

\* all() instead of any() over the verdict
AnyTrue_all(changed_) == \A name \in DOMAIN changed_.dict : changed_.dict[name]

\* line 203: True in changed_.values()
AnyTrue(changed_) == \E name \in DOMAIN changed_.dict : changed_.dict[name]

\* lines 203-208: the branch of a positive verdict
compare_changed(path_reference, path_target, changed_, e) ==
    LET stem == Stem(path_reference.rel)
        nocopy == Copied("none", {}, 0, {})
        tif == IF copy_tif THEN copy_file(path_reference, path_target, "tif", e.tif)
               ELSE nocopy
        las == IF copy_las /\ tif.raised = "none"
               THEN copy_file(path_reference, path_target, "las", e.las)
               ELSE nocopy
        copied == tif.copied \cup las.copied
        errors == tif.errors + las.errors
        failed_ == tif.failed \cup las.failed
        invoked_ == (IF copy_tif THEN {"tif"} ELSE {})
                        \cup (IF copy_las /\ tif.raised = "none" THEN {"las"} ELSE {})
    IN  IF tif.raised # "none"
        THEN Outcome(Raise(tif.raised, stem), copied, errors, failed_, invoked_)
        ELSE IF las.raised # "none"
        THEN Outcome(Raise(las.raised, stem), copied, errors, failed_, invoked_)
        ELSE Outcome(Return(1, changed_, stem), copied, errors, failed_, invoked_)

\* compare() that takes the missing verdict of a pair without target for a
\* positive one
compare_none_as_changed(path_reference, path_target) ==
    LET stem == Stem(path_reference.rel)
        difference_array == difference(path_reference, path_target)
        changed_ == changed(metrics, difference_array)
    IN  IF difference_array = AssertionError
        THEN {NoCopy(Raise("AssertionError", stem))}
        ELSE IF changed_ = NoVerdict
        THEN {NoCopy(Return(1, NoVerdict, stem))}
        ELSE IF AnyTrue(changed_)
        THEN {compare_changed(path_reference, path_target, changed_, e) : e \in Envs}
        ELSE {NoCopy(Return(0, NoVerdict, stem))}

\* RasterComparison.compare((path_reference, path_target)): the outcomes the call
\* can have, one for each thing the file system may do to the copies.
compare(path_reference, path_target) ==
    LET stem == Stem(path_reference.rel)
        difference_array == difference(path_reference, path_target)
        changed_ == changed(metrics, difference_array)
    IN  IF difference_array = AssertionError
        THEN {NoCopy(Raise("AssertionError", stem))}
        ELSE IF changed_ = NoVerdict
        THEN {NoCopy(Return(0 - 1, NoVerdict, stem))}
        ELSE IF AnyTrue(changed_)
        THEN {compare_changed(path_reference, path_target, changed_, e) : e \in Envs}
        ELSE {NoCopy(Return(0, NoVerdict, stem))}

\* ------------------------------------------------------------------ multi_run
\* the pool size (line 241)
PoolSize == IF threads # 0 THEN threads ELSE CpuCount

\* the (path_reference, path_target) pair of a reference tile (lines 230-232)
Pair(rel) == <<Path("reference", rel), Path("target", with_suffix(rel, ".tif"))>>

RECURSIVE Orders(_)
\* every order in which rglob may yield the elements of S
Orders(S) ==
    IF S = {} THEN {<<>>}
    ELSE UNION {{<<x>> \o o : o \in Orders(S \ {x})} : x \in S}

StemsOf(o) == [i \in DOMAIN o |-> Stem(o[i])]

\* lines 224-239: the pairs, and the target tiles no pair names
Enumerate ==
    /\ pc = "enumerate"
    /\ args' = {Pair(rel) : rel \in DOMAIN refs}
    /\ LET targets_match == {arg[2] : arg \in args'}
       IN  \E o \in Orders({rel \in DOMAIN tgts : Path("target", rel) \notin targets_match}) :
              targets_only' = StemsOf(o)
    /\ task' = [arg \in args' |-> "queued"]
    /\ reported' = [arg \in args' |-> "Pending"]
    /\ runs' = [arg \in args' |-> 0]
    /\ handled' = [arg \in args' |-> 0]
    /\ pc' = "imap"
    /\ UNCHANGED <<merger, refs, tgts, metrics, copy_tif, copy_las, threads, outq, counter,
                   file_changed, summary, archive, faults, calls, fn, writes>>

\* a pool that hands out a finished task again
StartTask_again(arg) ==
    /\ pc \in {"imap", "error"}
    /\ arg \in args
    /\ task[arg] \in {"queued", "finished"}
    /\ Cardinality({a \in args : task[a] = "running"}) < PoolSize
    /\ task' = [task EXCEPT ![arg] = "running"]
    /\ UNCHANGED <<merger, refs, tgts, metrics, copy_tif, copy_las, threads, pc, args,
                   targets_only, outq, counter, file_changed, reported, summary,
                   archive, faults, calls, fn, hist>>

\* a worker of the pool takes the next task
StartTask(arg) ==
    /\ pc \in {"imap", "error"}
    /\ arg \in args
    /\ task[arg] = "queued"
    /\ Cardinality({a \in args : task[a] = "running"}) < PoolSize
    /\ task' = [task EXCEPT ![arg] = "running"]
    /\ UNCHANGED <<merger, refs, tgts, metrics, copy_tif, copy_las, threads, pc, args,
                   targets_only, outq, counter, file_changed, reported, summary,
                   archive, faults, calls, fn, hist>>

\* a worker whose task reads the rasters of any pair of the collection, as with
\* a raster cache shared between the tasks
RunTask_shared(arg) ==
    /\ pc \in {"imap", "error"}
    /\ arg \in args
    /\ task[arg] = "running"
    /\ \E other \in args :
          \E r \in compare(other[1], other[2]) :
              /\ faults + r.nfaults <= MaxFaults
              /\ outq' = Append(outq, [job |-> arg, ret |-> r.ret])
              /\ archive' = archive \cup r.copied
              /\ faults' = faults + r.nfaults
    /\ task' = [task EXCEPT ![arg] = "finished"]
    /\ calls' = calls \cup {arg}
    /\ runs' = [runs EXCEPT ![arg] = @ + 1]
    /\ UNCHANGED <<merger, refs, tgts, metrics, copy_tif, copy_las, threads, pc, args,
                   targets_only, counter, file_changed, reported, summary, fn,
                   handled, writes>>

\* the worker runs raster_comparison.compare(arg) and puts the result, or the
\* exception, on the result queue; the file system may fail a call that copies
RunTask(arg) ==
    /\ pc \in {"imap", "error"}
    /\ arg \in args
    /\ task[arg] = "running"
    /\ \E r \in compare(arg[1], arg[2]) :
          /\ faults + r.nfaults <= MaxFaults
          /\ outq' = Append(outq, [job |-> arg, ret |-> r.ret])
          /\ archive' = archive \cup r.copied
          /\ faults' = faults + r.nfaults
    /\ task' = [task EXCEPT ![arg] = "finished"]
    /\ calls' = calls \cup {arg}
    /\ runs' = [runs EXCEPT ![arg] = @ + 1]
    /\ UNCHANGED <<merger, refs, tgts, metrics, copy_tif, copy_las, threads, pc, args,
                   targets_only, counter, file_changed, reported, summary, fn,
                   handled, writes>>

\* the stem written without the newline after it
WriteLine_no_newline(w, line) == Append(w, line)

\* file_changed.write(line); file_changed.write('\n') (lines 254-255, 265-266)
WriteLine(w, line) == Append(Append(w, line), "\n")

RECURSIVE WriteLines(_, _)
WriteLines(w, lines) ==
    IF lines = <<>> THEN w ELSE WriteLines(WriteLine(w, Head(lines)), Tail(lines))

\* lines 249-261: one iteration of the loop over pool.imap_unordered
Aggregate ==
    /\ pc = "imap"
    /\ outq # <<>>
    /\ LET job == Head(outq).job
           r == Head(outq).ret
       IN  /\ handled' = [handled EXCEPT ![job] = @ + 1]
           /\ IF r.exception # "none"
              THEN /\ pc' = "error"
                   /\ UNCHANGED <<counter, file_changed, reported, writes>>
              ELSE IF r.as_int = 0 - 1
              THEN /\ reported' = [reported EXCEPT ![job] = "Non-existing target"]
                   /\ UNCHANGED <<pc, counter, file_changed, writes>>
              ELSE IF r.as_int = 1
              THEN /\ reported' = [reported EXCEPT ![job] = "Changed"]
                   /\ file_changed' = Append(file_changed, r.stem)
                   /\ writes' = WriteLine(writes, r.stem)
                   /\ counter' = counter + 1
                   /\ UNCHANGED pc
              ELSE IF r.as_int = 0
              THEN /\ reported' = [reported EXCEPT ![job] = "Unchanged"]
                   /\ UNCHANGED <<pc, counter, file_changed, writes>>
              ELSE /\ pc' = "error"
                   /\ UNCHANGED <<counter, file_changed, reported, writes>>
    /\ outq' = Tail(outq)
    /\ UNCHANGED <<merger, refs, tgts, metrics, copy_tif, copy_las, threads, args, targets_only,
                   task, summary, archive, faults, calls, fn, runs>>

\* the target-only tiles left out of the change list
WriteNew_none(lines, new) == lines

\* the target-only tiles written before the lines of the compared pairs
WriteNew_front(lines, new) == new \o lines

\* the target-only tiles left out of counter
CountNew_none(n, new) == n

\* lines 263-267: a line, and one more in counter, for every target-only tile
WriteNew(lines, new) == lines \o new

CountNew(n, new) == n + Len(new)

\* lines 262-269: the iterator is exhausted; the target-only tiles and the summary
Summarise ==
    /\ pc = "imap"
    /\ outq = <<>>
    /\ \A arg \in args : task[arg] = "finished"
    /\ file_changed' = WriteNew(file_changed, targets_only)
    /\ counter' = CountNew(counter, targets_only)
    /\ summary' = <<counter', Cardinality(args)>>
    /\ writes' = WriteLines(writes, targets_only)
    /\ pc' = "done"
    /\ UNCHANGED <<merger, refs, tgts, metrics, copy_tif, copy_las, threads, args, targets_only,
                   task, outq, reported, archive, faults, calls, fn, runs, handled>>

\* ------------------------------------------------------------------ a run
\* the tiles of the two directories
RelPaths == {<<"t1", "a", ".tif">>, <<"t2", "a", ".tif">>, <<"t1", "b", ".tif">>}

Flat == Raster(2, 1, <<1, 1>>, {})

Raised == Raster(2, 1, <<1, MaxVal>>, {})

Tall == Raster(1, 2, <<1, 1>>, {})

OnePixel == Raster(1, 1, <<1>>, {})

\* what a relative path holds in the two directories: nothing, a target tile
\* alone, a reference tile alone, or a reference tile with a target tile that
\* is equal to it, raised, of another shape, or 1x1
TileKinds ==
    {"absent", "target_only", "no_target", "same", "raised", "other_shape", "one_pixel"}

ReferenceOf(kind) == Flat

TargetOf(kind) ==
    CASE kind = "raised" -> Raised
      [] kind = "other_shape" -> Tall
      [] kind = "one_pixel" -> OnePixel
      [] OTHER -> Flat

ReferenceDir(kinds) ==
    [rel \in {r \in RelPaths : kinds[r] \notin {"absent", "target_only"}} |->
        ReferenceOf(kinds[rel])]

TargetDir(kinds) ==
    [rel \in {r \in RelPaths : kinds[r] \notin {"absent", "no_target"}} |->
        TargetOf(kinds[rel])]

RunMetrics == {[maxima |-> 0], [mean |-> MaxVal]}

Init ==
    /\ \E kinds \in [RelPaths -> TileKinds] :
          /\ refs = ReferenceDir(kinds)
          /\ tgts = TargetDir(kinds)
    /\ metrics \in RunMetrics
    /\ copy_tif \in BOOLEAN
    /\ copy_las \in BOOLEAN
    /\ threads \in {0, 1}
    /\ merger = NoMerger
    /\ pc = "enumerate"
    /\ args = {}
    /\ targets_only = <<>>
    /\ task = <<>>
    /\ outq = <<>>
    /\ counter = 0
    /\ file_changed = <<>>
    /\ reported = <<>>
    /\ summary = <<>>
    /\ archive = {}
    /\ faults = 0
    /\ calls = {}
    /\ fn = [op |-> "none"]
    /\ runs = <<>>
    /\ handled = <<>>
    /\ writes = <<>>

Next ==
    \/ Enumerate
    \/ \E arg \in args : StartTask(arg)
    \/ \E arg \in args : RunTask(arg)
    \/ Aggregate
    \/ Summarise

Spec == Init /\ [][Next]_vars

\* ------------------------------------------------------------------ one call
\* The function-level specifications make one call on one tile.
TheTile == <<"t1", "a", ".tif">>

\* nothing of a run has happened
Fresh ==
    /\ merger = NoMerger
    /\ args = {}
    /\ targets_only = <<>>
    /\ task = <<>>
    /\ outq = <<>>
    /\ counter = 0
    /\ file_changed = <<>>
    /\ reported = <<>>
    /\ summary = <<>>
    /\ archive = {}
    /\ faults = 0
    /\ calls = {}
    /\ fn = [op |-> "none"]
    /\ runs = <<>>
    /\ handled = <<>>
    /\ writes = <<>>

Idle ==
    /\ merger = NoMerger
    /\ copy_tif = FALSE
    /\ copy_las = FALSE
    /\ threads = 1
    /\ pc = "call"
    /\ args = {}
    /\ targets_only = <<>>
    /\ task = <<>>
    /\ outq = <<>>
    /\ counter = 0
    /\ file_changed = <<>>
    /\ reported = <<>>
    /\ summary = <<>>
    /\ archive = {}
    /\ faults = 0
    /\ calls = {}
    /\ fn = [op |-> "none"]
    /\ runs = <<>>
    /\ handled = <<>>
    /\ writes = <<>>

\* difference(): any two rasters of one or two pixels, or no target file
DiffRasters == RastersOfShape(1, 1) \cup RastersOfShape(2, 1) \cup RastersOfShape(1, 2)

InitDifference ==
    /\ refs \in {TheTile :> r : r \in DiffRasters}
    /\ tgts \in {TheTile :> t : t \in DiffRasters} \cup {<<>>}
    /\ metrics = <<>>
    /\ Idle

CallDifference ==
    /\ pc = "call"
    /\ fn' = [op |-> "difference",
              difference_array |-> difference(Path("reference", TheTile),
                                              Path("target", TheTile))]
    /\ pc' = "return"
    /\ UNCHANGED <<merger, refs, tgts, metrics, copy_tif, copy_las, threads, args, targets_only,
                   task, outq, counter, file_changed, reported, summary, archive, faults,
                   calls, hist>>

SpecDifference == InitDifference /\ [][CallDifference]_vars

\* compare(): a flat reference raster and any target raster of the same width,
\* under any metric configuration
Thresholds == {0 - 1, 0, 1}

Option(name, values) == {<<>>} \cup {name :> v : v \in values}

Configs ==
    {m1 @@ m2 @@ m3 @@ m4 @@ m5 :
        m1 \in Option("mean", Thresholds),
        m2 \in Option("maxima", {0, 1}),
        m3 \in Option("sum", {0, 1}),
        m4 \in Option("count_larger_than", {0, 1} \X {0, 1}),
        m5 \in Option("percentage_larger_than", {0, 1} \X {<<1, 2>>})}

InitCompare ==
    /\ \E n \in 1..MaxPixels :
          /\ refs = (TheTile :> Raster(n, 1, [i \in 1..n |-> 0], {}))
          /\ tgts \in {TheTile :> Raster(n, 1, a, {}) : a \in [1..n -> Pixels]}
    /\ metrics \in Configs
    /\ Idle

CallCompare ==
    /\ pc = "call"
    /\ LET path_reference == Path("reference", TheTile)
           path_target == Path("target", TheTile)
           difference_array == difference(path_reference, path_target)
       IN  \E r \in compare(path_reference, path_target) :
              fn' = [op |-> "compare", difference_array |-> difference_array,
                     changed_ |-> IF difference_array = AssertionError THEN NoVerdict
                                  ELSE changed(metrics, difference_array),
                     ret |-> r.ret,
                     copied |-> r.copied, errors |-> r.errors, failed |-> r.failed,
                     invoked |-> r.invoked]
    /\ pc' = "return"
    /\ UNCHANGED <<merger, refs, tgts, metrics, copy_tif, copy_las, threads, args, targets_only,
                   task, outq, counter, file_changed, reported, summary, archive, faults,
                   calls, hist>>

SpecCompare == InitCompare /\ [][CallCompare]_vars

\* compare() with the archive switched on or off: a reference raster that is
\* flat or 1x1, a target raster of any kind or none, a threshold that is
\* positive, zero or negative
ArchiveMetrics == {[maxima |-> 0], [mean |-> MaxVal], [mean |-> 0 - 1]}

InitArchive ==
    /\ refs \in {TheTile :> r : r \in {Flat, OnePixel}}
    /\ tgts \in {TheTile :> t : t \in {Flat, Raised, Tall, OnePixel}} \cup {<<>>}
    /\ metrics \in ArchiveMetrics
    /\ copy_tif \in BOOLEAN
    /\ copy_las \in BOOLEAN
    /\ threads = 1
    /\ pc = "call"
    /\ Fresh

SpecArchive == InitArchive /\ [][CallCompare]_vars

\* difference() on a tile and on the same tile with one more pixel, which is
\* nodata in the reference or in the target
WideTile == <<"t1", "b", ".tif">>

\* the raster with the pixel v added to its row (or to its column)
Widened(raster, v) ==
    IF raster.RasterYSize = 1
    THEN Raster(raster.RasterXSize + 1, 1, Append(raster.array, v), raster.nodata)
    ELSE Raster(raster.RasterXSize, raster.RasterYSize + 1, Append(raster.array, v),
                raster.nodata)

InitZeroFill ==
    /\ \E r \in DiffRasters, t \in DiffRasters, vr \in Pixels, vt \in Pixels :
          /\ r.RasterXSize = t.RasterXSize
          /\ r.RasterYSize = t.RasterYSize
          /\ vr \in r.nodata \/ vt \in t.nodata
          /\ refs = (TheTile :> r) @@ (WideTile :> Widened(r, vr))
          /\ tgts = (TheTile :> t) @@ (WideTile :> Widened(t, vt))
    /\ metrics = <<>>
    /\ Idle

CallZeroFill ==
    /\ pc = "call"
    /\ fn' = [op |-> "zero_fill",
              narrow |-> difference(Path("reference", TheTile), Path("target", TheTile)),
              wide |-> difference(Path("reference", WideTile), Path("target", WideTile))]
    /\ pc' = "return"
    /\ UNCHANGED <<merger, refs, tgts, metrics, copy_tif, copy_las, threads, args, targets_only,
                   task, outq, counter, file_changed, reported, summary, archive, faults,
                   calls, hist>>

SpecZeroFill == InitZeroFill /\ [][CallZeroFill]_vars

\* ------------------------------------------------------------------ nodata
\* value in array (src/utils/_utils.py line 31); value is {} for None
HasNodata(image) == \E i \in DOMAIN image.array : image.array[i] \in image.nodata

\* nodata(image) of src/utils/_utils.py: (has_nodata, mask_nodata)
nodata(image) ==
    LET value == image.nodata
        array == image.array
        has_nodata == HasNodata(image)
        zeros == [i \in DOMAIN array |-> FALSE]
    IN  [has_nodata |-> has_nodata,
         mask_nodata |-> IF has_nodata
                         THEN [i \in DOMAIN array |-> array[i] \notin value]
                         ELSE zeros]

\* nodata(): any raster of one row with at most MaxPixels pixels
InitNodata ==
    /\ \E n \in 1..MaxPixels : refs \in {TheTile :> r : r \in RastersOfShape(n, 1)}
    /\ tgts = <<>>
    /\ metrics = <<>>
    /\ Idle

CallNodata ==
    /\ pc = "call"
    /\ fn' = [op |-> "nodata", ret |-> nodata(gdalOpen(Path("reference", TheTile)))]
    /\ pc' = "return"
    /\ UNCHANGED <<merger, refs, tgts, metrics, copy_tif, copy_las, threads, args, targets_only,
                   task, outq, counter, file_changed, reported, summary, archive, faults,
                   calls, hist>>

SpecNodata == InitNodata /\ [][CallNodata]_vars

\* ------------------------------------------------------------------ enumeration
\* The tiles rglob('*' + 'tif') may yield in a directory: the pattern takes
\* every name that ends in tif, a.tif as well as a.gtif.
EnumPaths == {<<"t1", "a", ".tif">>, <<"t1", "a", ".gtif">>, <<"t1", "b", ".tif">>}

Directories == UNION {[S -> {Flat}] : S \in SUBSET EnumPaths}

InitEnumerate ==
    /\ refs \in Directories
    /\ tgts \in Directories
    /\ metrics = [maxima |-> 0]
    /\ copy_tif = FALSE
    /\ copy_las = FALSE
    /\ threads = 1
    /\ pc = "enumerate"
    /\ Fresh

SpecEnumerate == InitEnumerate /\ [][Enumerate]_vars

\* ------------------------------------------------------------------ merge.py
\* A file of data_dir is named by its stem, the sequence of the parts that "_"
\* separates; a pair is <<ahn4_path, ahn34_path>>.

\* what a run of src/merge.py leaves alone
compare_run == <<refs, tgts, metrics, copy_tif, copy_las, threads, pc, args, targets_only,
                 task, outq, counter, file_changed, reported, summary, archive, faults,
                 calls, fn, hist>>

prefix_ahn4 == <<"ahn4">>

prefix_ahn34 == <<"ahn34">>

\* CityModelMerger.get_tile_number: stem.split('_')[-1]
get_tile_number(stem) == stem[Len(stem)]

\* rglob(prefix + '*.json'): the stems that start with the prefix
HasPrefix(stem, prefix) ==
    Len(stem) >= Len(prefix) /\ SubSeq(stem, 1, Len(prefix)) = prefix

\* line 113-114: the AHN3/4 file looked for next to an AHN4 file
ahn34_path(ahn4_path) == prefix_ahn34 \o <<get_tile_number(ahn4_path)>>

\* the records append_id writes for the lines of changed_ids
IdRecords(lines) == [i \in DOMAIN lines |-> <<"--id", lines[i]>>]

\* the files of data_dir in the runs, the change lists of the compare run, and
\* what changed_temp holds before the run
DataFiles ==
    {<<"ahn4", "1">>, <<"ahn4", "2">>, <<"ahn4", "b", "1">>, <<"ahn34", "1">>, <<"ahn34", "2">>}

ChangeLists == {<<>>, <<"x">>, <<"x", "y">>}

StaleLists == {<<>>, IdRecords(<<"old">>)}

Ahn4Paths(data_dir) == {f \in data_dir : HasPrefix(f, prefix_ahn4)}

InitMerge ==
    /\ merger \in
          {[pc |-> "enumerate", data_dir |-> d, do_append_id |-> a, changed_ids |-> ids,
            changed_temp |-> t, args |-> {}, skipped |-> {}, subset |-> <<>>,
            merge |-> <<>>, results |-> 0, taken |-> 0,
            subset_runs |-> [f \in Ahn4Paths(d) |-> 0],
            merge_runs |-> [f \in Ahn4Paths(d) |-> 0],
            subset_read |-> <<>>, temp_dir |-> {}, output_dir |-> {}] :
              d \in SUBSET DataFiles, a \in BOOLEAN, ids \in ChangeLists, t \in StaleLists}
    /\ refs = <<>>
    /\ tgts = <<>>
    /\ metrics = <<>>
    /\ copy_tif = FALSE
    /\ copy_las = FALSE
    /\ threads \in {0, 1}
    /\ pc = "none"
    /\ args = {}
    /\ targets_only = <<>>
    /\ task = <<>>
    /\ outq = <<>>
    /\ counter = 0
    /\ file_changed = <<>>
    /\ reported = <<>>
    /\ summary = <<>>
    /\ archive = {}
    /\ faults = 0
    /\ calls = {}
    /\ fn = [op |-> "none"]
    /\ runs = <<>>
    /\ handled = <<>>
    /\ writes = <<>>

\* lines 108-123: the pairs whose AHN3/4 file exists, the pool, the merger
MergeEnumerate ==
    /\ merger.pc = "enumerate"
    /\ LET ahn4_paths == Ahn4Paths(merger.data_dir)
           found == {f \in ahn4_paths : ahn34_path(f) \in merger.data_dir}
           new_args == {<<f, ahn34_path(f)>> : f \in found}
       IN  merger' = [merger EXCEPT
                        !.args = new_args,
                        !.skipped = {ahn34_path(f) : f \in ahn4_paths \ found},
                        !.subset = [a \in new_args |-> "queued"],
                        !.merge = [a \in new_args |-> "queued"],
                        !.pc = IF merger.do_append_id THEN "append_id" ELSE "subset"]
    /\ UNCHANGED compare_run

\* append_id, lines 36-40: changed_ids is read, changed_temp opened for writing
AppendIdOpen ==
    /\ merger.pc = "append_id"
    /\ merger' = [merger EXCEPT !.changed_temp = <<>>, !.pc = "write_ids"]
    /\ UNCHANGED compare_run

\* append_id, lines 41-43: one record written
AppendIdWrite ==
    /\ merger.pc = "write_ids"
    /\ Len(merger.changed_temp) < Len(merger.changed_ids)
    /\ merger' = [merger EXCEPT
                     !.changed_temp =
                         Append(@, IdRecords(merger.changed_ids)[Len(@) + 1])]
    /\ UNCHANGED compare_run

\* append_id returns after the last record (line 40's with block is left)
AppendIdClose ==
    /\ merger.pc = "write_ids"
    /\ Len(merger.changed_temp) = Len(merger.changed_ids)
    /\ merger' = [merger EXCEPT !.pc = "subset"]
    /\ UNCHANGED compare_run

Running(tasks) == Cardinality({a \in DOMAIN tasks : tasks[a] = "running"})

\* a worker of the pool takes a task of pool.imap_unordered(merger.subset, args)
StartSubset(arg) ==
    /\ merger.pc = "subset"
    /\ arg \in merger.args
    /\ merger.subset[arg] = "queued"
    /\ Running(merger.subset) < PoolSize
    /\ merger' = [merger EXCEPT !.subset[arg] = "running"]
    /\ UNCHANGED compare_run

SubsetFile(path) == path \o <<"subset">>

\* CityModelMerger.subset(arg), lines 55-81: both files subset with the ids of
\* changed_temp, the two subsets saved under temp_dir
RunSubset(arg) ==
    /\ arg \in merger.args
    /\ merger.subset[arg] = "running"
    /\ merger' = [merger EXCEPT
                     !.subset[arg] = "finished",
                     !.subset_runs[arg[1]] = @ + 1,
                     !.subset_read = (arg :> merger.changed_temp) @@ @,
                     !.temp_dir = @ \cup {SubsetFile(arg[1]), SubsetFile(arg[2])},
                     !.results = @ + 1]
    /\ UNCHANGED compare_run

\* lines 129-130: one iteration of the loop over the subset results
TakeSubset ==
    /\ merger.pc = "subset"
    /\ merger.results > 0
    /\ merger' = [merger EXCEPT !.results = @ - 1, !.taken = @ + 1]
    /\ UNCHANGED compare_run

\* lines 129-132: the iterator is exhausted, the merge tasks are handed over
EndSubset ==
    /\ merger.pc = "subset"
    /\ merger.taken = Cardinality(merger.args)
    /\ merger' = [merger EXCEPT !.pc = "merge", !.taken = 0]
    /\ UNCHANGED compare_run

\* the merge tasks handed to the pool without the subset results being awaited
StartMerge_early(arg) ==
    /\ merger.pc \in {"subset", "merge"}
    /\ arg \in merger.args
    /\ merger.merge[arg] = "queued"
    /\ Running(merger.merge) < PoolSize
    /\ merger' = [merger EXCEPT !.merge[arg] = "running"]
    /\ UNCHANGED compare_run

\* a worker of the pool takes a task of pool.imap_unordered(merger.merge, args)
StartMerge(arg) ==
    /\ merger.pc = "merge"
    /\ arg \in merger.args
    /\ merger.merge[arg] = "queued"
    /\ Running(merger.merge) < PoolSize
    /\ merger' = [merger EXCEPT !.merge[arg] = "running"]
    /\ UNCHANGED compare_run

\* CityModelMerger.merge(arg), lines 83-98: the two subsets merged into the file
\* of the tile number under output_dir
RunMerge(arg) ==
    /\ arg \in merger.args
    /\ merger.merge[arg] = "running"
    /\ merger' = [merger EXCEPT
                     !.merge[arg] = "finished",
                     !.merge_runs[arg[1]] = @ + 1,
                     !.output_dir = @ \cup {<<get_tile_number(SubsetFile(arg[1])), "json">>},
                     !.results = @ + 1]
    /\ UNCHANGED compare_run

\* lines 132-133: one iteration of the loop over the merge results
TakeMerge ==
    /\ merger.pc = "merge"
    /\ merger.results > 0
    /\ merger' = [merger EXCEPT !.results = @ - 1, !.taken = @ + 1]
    /\ UNCHANGED compare_run

\* line 133: the iterator is exhausted, multi_run returns
EndMerge ==
    /\ merger.pc = "merge"
    /\ merger.taken = Cardinality(merger.args)
    /\ merger' = [merger EXCEPT !.pc = "done"]
    /\ UNCHANGED compare_run

NextMerge ==
    \/ MergeEnumerate
    \/ AppendIdOpen
    \/ AppendIdWrite
    \/ AppendIdClose
    \/ \E arg \in merger.args : StartSubset(arg)
    \/ \E arg \in merger.args : RunSubset(arg)
    \/ TakeSubset
    \/ EndSubset
    \/ \E arg \in merger.args : StartMerge(arg)
    \/ \E arg \in merger.args : RunMerge(arg)
    \/ TakeMerge
    \/ EndMerge

SpecMerge == InitMerge /\ [][NextMerge]_vars

\* ------------------------------------------------------------------ integer bands
\* the integer pixel types of a band: ReadAsArray (lines 76, 79) hands back a
\* numpy array of the band's type, uint8 for Byte and int16 for Int16
IntTypes == {"Byte", "Int16"}

Bits(dtype) == IF dtype = "Byte" THEN 8 ELSE 16

\* the value an array of the type holds for the integer x: numpy's integer
\* arithmetic is modulo 2^Bits, two's complement for the signed type
Wrap(x, dtype) ==
    IF dtype = "Byte"
    THEN x % (2 ^ Bits(dtype))
    ELSE ((x + 2 ^ (Bits(dtype) - 1)) % (2 ^ Bits(dtype))) - 2 ^ (Bits(dtype) - 1)

MinOf(dtype) == IF dtype = "Byte" THEN 0 ELSE 0 - 2 ^ (Bits(dtype) - 1)

MaxOf(dtype) == IF dtype = "Byte" THEN 2 ^ Bits(dtype) - 1 ELSE 2 ^ (Bits(dtype) - 1) - 1

\* lines 75-89 on two bands of the integer type dtype: the subtraction and
\* np.absolute are computed in the type
MaskedDifferenceOfType(reference, target, dtype) ==
    LET array_reference == reference.array
        array_target == target.array
        nodata_mask == [i \in DOMAIN array_reference |->
                          \/ array_reference[i] \in reference.nodata
                          \/ array_target[i] \in target.nodata]
        zeroed_reference == [i \in DOMAIN array_reference |->
                               IF nodata_mask[i] THEN 0 ELSE array_reference[i]]
        zeroed_target == [i \in DOMAIN array_target |->
                            IF nodata_mask[i] THEN 0 ELSE array_target[i]]
    IN  [i \in DOMAIN array_reference |->
            Wrap(Abs(Wrap(zeroed_target[i] - zeroed_reference[i], dtype)), dtype)]

\* the pixel values of the type in the runs: the small ones and the two ends
PixelsOfType(dtype) == {MinOf(dtype), MaxOf(dtype)} \cup Pixels

\* the 2x1 rasters of the type, without a no-data value or with no-data value 0
RastersOfType(dtype) ==
    {[RasterXSize |-> 2, RasterYSize |-> 1, array |-> a, nodata |-> nd, dtype |-> dtype] :
        a \in [1..2 -> PixelsOfType(dtype)], nd \in {{}, {0}}}

InitDifferenceOfType ==
    /\ \E dtype \in IntTypes :
          /\ refs \in {TheTile :> r : r \in RastersOfType(dtype)}
          /\ tgts \in {TheTile :> t : t \in RastersOfType(dtype)}
    /\ metrics = <<>>
    /\ Idle

\* difference(a, b) and difference(b, a) on the two rasters of the tile
CallDifferenceOfType ==
    /\ pc = "call"
    /\ LET a == refs[TheTile]
           b == tgts[TheTile]
       IN  fn' = [op |-> "difference",
                  a_b |-> MaskedDifferenceOfType(a, b, a.dtype),
                  b_a |-> MaskedDifferenceOfType(b, a, a.dtype)]
    /\ pc' = "return"
    /\ UNCHANGED <<merger, refs, tgts, metrics, copy_tif, copy_las, threads, args, targets_only,
                   task, outq, counter, file_changed, reported, summary, archive, faults,
                   calls, hist>>

SpecDifferenceOfType == InitDifferenceOfType /\ [][CallDifferenceOfType]_vars

\* ------------------------------------------------------------------ properties
Stems == {Stem(rel) : rel \in RelPaths}

\* the number of lines of a list that hold stem s
Lines(list, s) == Cardinality({i \in DOMAIN list : list[i] = s})

\* the reference tiles whose target raster file does not exist
NoTarget == {arg \in args : ~is_file(arg[2])}

\* the target tiles whose relative path no reference tile has
TargetOnly == {rel \in DOMAIN tgts : rel \notin DOMAIN refs}

\* the pairs the metrics give a positive verdict
Positive ==
    {arg \in args :
        LET d == difference(arg[1], arg[2])
        IN  /\ d.kind = "array"
            /\ AnyTrue(changed(metrics, d))}

ReportedChanged == {arg \in args : reported[arg] = "Changed"}

\* C1: a reference tile whose target raster file does not exist has the no-match
\* sentinel as its difference and None as its verdict, compare hands back -1 for
\* it, and the parent process reports it as a non-existing target, never as
\* Changed or Unchanged; no line of the change list is written for it: every
\* line is the stem of a pair reported Changed or, at the end, of a target-only
\* tile.
C1_MissingTargetUnmatched ==
    /\ \A arg \in NoTarget :
          /\ difference(arg[1], arg[2]) = None
          /\ changed(metrics, difference(arg[1], arg[2])) = NoVerdict
          /\ compare(arg[1], arg[2])
                = {Outcome(Return(0 - 1, NoVerdict, Stem(arg[1].rel)), {}, 0, {}, {})}
          /\ reported[arg] \in {"Pending", "Non-existing target"}
          /\ \A i \in DOMAIN outq :
                outq[i].job = arg => outq[i].ret.as_int = 0 - 1
          /\ (task[arg] = "finished" /\ \A i \in DOMAIN outq : outq[i].job # arg)
                => reported[arg] = "Non-existing target"
    /\ \A s \in Stems :
          Lines(file_changed, s)
              = Cardinality({arg \in ReportedChanged \ NoTarget : Stem(arg[1].rel) = s})
                  + (IF pc = "done" THEN Lines(targets_only, s) ELSE 0)

\* C1 witness: a tile without target has been reported while a line is in the list
C1_Witness ==
    /\ \E arg \in NoTarget : reported[arg] = "Non-existing target"
    /\ file_changed # <<>>

\* C2: when the run has completed, every target-only tile has its line in the
\* change list and is counted as changed, and neither difference nor changed was
\* invoked for it: compare is only ever called on the pair of a reference tile.
C2_TargetOnlyChanged ==
    /\ \A rel \in TargetOnly : \A arg \in calls : arg[2] # Path("target", rel)
    /\ \A arg \in calls : arg[1].rel \in DOMAIN refs /\ arg[2].rel = arg[1].rel
    /\ pc = "done" =>
          /\ \A s \in Stems :
                Lines(file_changed, s)
                    >= Cardinality({rel \in TargetOnly : Stem(rel) = s})
          /\ Len(file_changed) = Cardinality(ReportedChanged) + Cardinality(TargetOnly)
          /\ counter = Cardinality(ReportedChanged) + Cardinality(TargetOnly)

\* C2 witness: a completed run with a target-only tile and a compared pair
C2_Witness == pc = "done" /\ TargetOnly # {} /\ calls # {}

\* C3: when a run completes, the changed count, also in the summary line, is the
\* number of pairs the metrics give a positive verdict plus the number of
\* target-only tiles, in every order of completion.
C3_ChangedCount ==
    pc = "done" =>
        /\ counter = Cardinality(Positive) + Cardinality(TargetOnly)
        /\ summary = <<Cardinality(Positive) + Cardinality(TargetOnly), Cardinality(args)>>

\* C3 witness: a completed run with a target-only tile and two positive pairs,
\* the pair of stem b reported before the pair of stem a
C3_Witness ==
    /\ pc = "done"
    /\ Cardinality(Positive) >= 2
    /\ TargetOnly # {}
    /\ Len(file_changed) >= 3
    /\ file_changed[1] = "b"
    /\ file_changed[2] = "a"

\* ------------------------------------------------------------------ difference
TheReference == refs[TheTile]

TheTarget == tgts[TheTile]

OneByOne(raster) == raster.RasterXSize = 1 /\ raster.RasterYSize = 1

\* difference() was called on two existing, equally sized, non-1x1 rasters
Comparable ==
    /\ fn.op = "difference"
    /\ TheTile \in DOMAIN tgts
    /\ TheReference.RasterXSize = TheTarget.RasterXSize
    /\ TheReference.RasterYSize = TheTarget.RasterYSize
    /\ ~OneByOne(TheReference)

NodataAt(i) ==
    \/ TheReference.array[i] \in TheReference.nodata
    \/ TheTarget.array[i] \in TheTarget.nodata

Identical ==
    /\ fn.op = "difference"
    /\ TheTile \in DOMAIN tgts
    /\ TheReference.RasterXSize = TheTarget.RasterXSize
    /\ TheReference.RasterYSize = TheTarget.RasterYSize
    /\ \A i \in DOMAIN TheReference.array :
          ~NodataAt(i) => TheReference.array[i] = TheTarget.array[i]

AllZero(a) == \A i \in DOMAIN a : a[i] = 0

AllFalse(changed_) == \A name \in DOMAIN changed_.dict : ~changed_.dict[name]

\* every threshold of the configuration is at least 0
NonNegative(m) ==
    /\ \A name \in DOMAIN m \cap {"mean", "maxima", "sum"} : m[name] >= 0
    /\ "count_larger_than" \in DOMAIN m =>
          m["count_larger_than"][1] >= 0 /\ m["count_larger_than"][2] >= 0
    /\ "percentage_larger_than" \in DOMAIN m =>
          /\ m["percentage_larger_than"][1] >= 0
          /\ m["percentage_larger_than"][2][1] >= 0

NonNegativeConfigs == UNION {IF NonNegative(m) THEN {m} ELSE {} : m \in Configs}

Configured(name) == fn.op = "compare" /\ name \in DOMAIN metrics

TheArray == fn.difference_array.array

TheVerdict == fn.changed_.dict

RECURSIVE Total(_, _)
Total(a, S) ==
    IF S = {} THEN 0
    ELSE LET i == CHOOSE j \in S : TRUE IN a[i] + Total(a, S \ {i})

Stopped ==
    /\ ~ENABLED Enumerate
    /\ ~ENABLED Aggregate
    /\ ~ENABLED Summarise
    /\ \A arg \in args : ~ENABLED StartTask(arg)
    /\ \A arg \in args : ~ENABLED RunTask(arg)

\* the summary is emitted and every pair has its outcome
Completed ==
    /\ pc = "done"
    /\ summary # <<>>
    /\ \A arg \in args : reported[arg] # "Pending"

\* the pairs whose existing target has another width or height than the reference
OtherSize ==
    {arg \in args :
        /\ is_file(arg[2])
        /\ \/ gdalOpen(arg[1]).RasterXSize # gdalOpen(arg[2]).RasterXSize
           \/ gdalOpen(arg[1]).RasterYSize # gdalOpen(arg[2]).RasterYSize}

\* the pairs on which the assertion of lines 72-73 fails
Mismatched ==
    {arg \in OtherSize : ~OneByOne(gdalOpen(arg[1])) /\ ~OneByOne(gdalOpen(arg[2]))}

AssertionFired == \E arg \in Mismatched : task[arg] = "finished"

\* C9 as claimed: a run in which no dimension-mismatch assertion fires stops only
\* when it has completed, every pair with its outcome and the summary emitted,
\* also when targets are missing or archive copies fail.
C9_RunCompletes == Stopped => (AssertionFired \/ Completed)

\* the task of the pair can only hand back the assertion error, the parent
\* process reports no outcome for it, and no summary is emitted
NoOutcome(arg) ==
    /\ \A i \in DOMAIN outq : outq[i].job = arg => outq[i].ret.exception = "AssertionError"
    /\ reported[arg] = "Pending"
    /\ pc # "done"
    /\ summary = <<>>

\* C10 as claimed: a pair whose existing target has another width or height than
\* the reference fails with the assertion and gets no outcome, and the run stops
\* in the error state, without the summary.
C10_OtherSizeAborts ==
    /\ \A arg \in OtherSize : NoOutcome(arg)
    /\ OtherSize # {} => (pc = "error" \/ ~Stopped)

\* C10, amended: a pair whose existing target has another width or height than
\* the reference, neither raster being 1x1, fails with the assertion and gets no
\* outcome, and the run stops in the error state, without the summary.
C10_MismatchAborts ==
    /\ \A arg \in Mismatched : NoOutcome(arg)
    /\ Mismatched # {} => (pc = "error" \/ ~Stopped)

\* C10 witness: the run has stopped in the error state after the assertion failed
\* on one pair, the outcome of another pair already reported
C10_Witness ==
    /\ Stopped
    /\ pc = "error"
    /\ AssertionFired
    /\ \E arg \in args : reported[arg] \in {"Changed", "Unchanged", "Non-existing target"}

\* ------------------------------------------------------------------ aggregation
\* the pairs logged as a non-existing target
Unmatched == {arg \in args : reported[arg] = "Non-existing target"}

StemsOfPairs(o) == [i \in DOMAIN o |-> Stem(o[i][1].rel)]

\* the change list of the run in which the results of the positive pairs arrive
\* in one fixed order: were the list the same for every order of completion, it
\* would be this one
ListInFixedOrder == StemsOfPairs(CHOOSE o \in Orders(Positive) : TRUE) \o targets_only

\* C13 as claimed: the final change list and the final counter of a completed
\* run are the same for every order in which the workers complete.
C13_SameList ==
    pc = "done" =>
        /\ file_changed = ListInFixedOrder
        /\ counter = Cardinality(Positive) + Cardinality(TargetOnly)

\* C13, amended: the final change list of a completed run holds the same lines,
\* each as often, for every order in which the workers complete: one line for
\* every pair with a positive verdict, in the order of completion, followed by
\* the target-only tiles; the final counter is the number of lines.
C13_SameLines ==
    pc = "done" =>
        /\ \A s \in Stems :
              Lines(file_changed, s)
                  = Cardinality({arg \in Positive : Stem(arg[1].rel) = s})
                      + Cardinality({rel \in TargetOnly : Stem(rel) = s})
        /\ Len(file_changed) = Cardinality(Positive) + Len(targets_only)
        /\ SubSeq(file_changed, Cardinality(Positive) + 1, Len(file_changed)) = targets_only
        /\ counter = Len(file_changed)

\* C13 witness: a completed run whose positive pairs completed in another order
\* than the fixed one
C13_Witness ==
    /\ pc = "done"
    /\ Cardinality(Positive) >= 2
    /\ targets_only # <<>>
    /\ file_changed # ListInFixedOrder

Terminal == {"Non-existing target", "Unchanged", "Changed"}

\* C14 as claimed, in the runs without any failing file operation: every pair is
\* run at most once and its result taken at most once, and when the run stops
\* every pair has been run once, its result taken once, and it has one of the
\* terminal outcomes.
C14_EveryPairTerminal ==
    /\ \A arg \in args :
          /\ runs[arg] <= 1
          /\ handled[arg] <= 1
          /\ reported[arg] \in Terminal \cup {"Pending"}
    /\ (faults = 0 /\ Stopped) =>
          \A arg \in args :
              runs[arg] = 1 /\ handled[arg] = 1 /\ reported[arg] \in Terminal

OncePerPair ==
    \A arg \in args :
        /\ runs[arg] <= 1
        /\ handled[arg] <= runs[arg]
        /\ runs[arg] = 1 <=> task[arg] = "finished"
        /\ reported[arg] \in Terminal \cup {"Pending"}
        /\ reported[arg] \in Terminal => handled[arg] = 1
        /\ handled[arg] = 0 => reported[arg] = "Pending"
        /\ pc = "done" =>
              runs[arg] = 1 /\ handled[arg] = 1 /\ reported[arg] \in Terminal

TerminalStays ==
    \A arg \in args :
        reported[arg] \in Terminal =>
            /\ reported'[arg] = reported[arg]
            /\ task'[arg] = task[arg]
            /\ runs'[arg] = runs[arg]
            /\ handled'[arg] = handled[arg]

\* C14, amended: every enumerated pair starts Pending, is run at most once and
\* its result is taken at most once; it has at most one terminal outcome, and
\* when the run completes it has been run once, its result taken once, and it
\* has exactly one; a pair in a terminal outcome never changes outcome and is
\* never dispatched, run or aggregated again.
C14_AtMostOnce == []OncePerPair /\ [][TerminalStays]_vars

\* C14 witness: a completed run with all three terminal outcomes
C14_Witness ==
    /\ pc = "done"
    /\ \A o \in Terminal : \E arg \in args : reported[arg] = o

\* every line is a stem written whole, then the newline
WholeLines ==
    /\ Len(writes) = 2 * Len(file_changed)
    /\ \A i \in DOMAIN file_changed :
          /\ file_changed[i] \in Stems
          /\ writes[2 * i - 1] = file_changed[i]
          /\ writes[2 * i] = "\n"

\* a step that writes on the file is a step of the loop or of the lines after
\* it in the parent process, not a step of a worker
ParentWrites ==
    (writes' # writes \/ file_changed' # file_changed) =>
        /\ pc = "imap"
        /\ task' = task
        /\ runs' = runs
        /\ (outq # <<>> /\ outq' = Tail(outq)) \/ pc' = "done"

\* C15: in every interleaving of the workers' tasks the change list is written
\* by the parent process alone, and each line is one whole stem followed by a
\* newline, no other write between the two.
C15_SingleWriter == []WholeLines /\ [][ParentWrites]_vars

\* C15 witness: two lines in the file, the second written while a task of
\* another pair was still running
C15_Witness ==
    /\ Len(file_changed) = 2
    /\ \E arg \in args : task[arg] = "running"

\* ------------------------------------------------------------------ the archive
ThreeKinds == {"SameFileError", "IsADirectoryError", "PermissionError"}

\* the metrics give the pair a positive verdict
PositiveVerdict == fn.changed_.kind = "dict" /\ \E name \in DOMAIN TheVerdict : TheVerdict[name]

\* C11 as claimed: when file operations of a pair's archive copies fail, each with
\* a same-file, is-a-directory or permission error, every failure is caught and
\* logged, and compare still hands back Changed (1) with the verdict of the
\* metrics and the stem, which the loop of multi_run writes to the change list
\* before it goes on with the next result.
C11_CopyFailureCaught ==
    (/\ fn.op = "compare"
     /\ fn.failed # {}
     /\ \A f \in fn.failed : f.kind \in ThreeKinds)
        => /\ fn.errors = Cardinality(fn.failed)
           /\ fn.ret.exception = "none"
           /\ fn.ret.as_int = 1
           /\ fn.ret.changed_ = fn.changed_
           /\ fn.ret.stem = Stem(TheTile)

\* C18 as claimed: when the target exists and the reference or the target raster
\* is 1x1, also with different dimensions, the difference is the array [0], no
\* assertion is evaluated, and compare hands back Changed (1) or Unchanged (0)
\* as the metrics decide on that array; the call never ends in an exception.
C18_OnePixelShortcut ==
    (/\ fn.op = "compare"
     /\ TheTile \in DOMAIN tgts
     /\ OneByOne(TheReference) \/ OneByOne(TheTarget))
        => /\ fn.difference_array = Array(<<0>>)
           /\ DOMAIN TheVerdict = DOMAIN metrics
           /\ fn.ret.exception = "none"
           /\ fn.ret.as_int = IF PositiveVerdict THEN 1 ELSE 0

\* C19 as claimed: copy_file is invoked for the pair with filetype tif exactly
\* when the metrics give the pair a positive verdict and copy_tif is set, and
\* with filetype las exactly when they do and copy_las is set; nothing is
\* copied for a pair without target or with a negative verdict.
C19_ArchiverGating ==
    fn.op = "compare" =>
        /\ "tif" \in fn.invoked <=> (PositiveVerdict /\ copy_tif)
        /\ "las" \in fn.invoked <=> (PositiveVerdict /\ copy_las)
        /\ ~PositiveVerdict => fn.copied = {}

\* ------------------------------------------------------------------ nodata
\* C16 as claimed: nodata(image) returns a mask of the band's shape that is true
\* exactly at the pixels equal to the nodata value, and has_nodata is true if
\* and only if the nodata value occurs in the band; without a nodata value it
\* returns (false, all-false mask).
C16_NodataMask ==
    fn.op = "nodata" =>
        /\ DOMAIN fn.ret.mask_nodata = DOMAIN TheReference.array
        /\ \A i \in DOMAIN TheReference.array :
              fn.ret.mask_nodata[i] <=> TheReference.array[i] \in TheReference.nodata
        /\ fn.ret.has_nodata <=>
              \E i \in DOMAIN TheReference.array :
                  TheReference.array[i] \in TheReference.nodata
        /\ TheReference.nodata = {} =>
              /\ ~fn.ret.has_nodata
              /\ \A i \in DOMAIN TheReference.array : ~fn.ret.mask_nodata[i]

\* ------------------------------------------------------------------ enumeration
\* C17 as claimed: after the enumeration every reference tile is in exactly one
\* pair, whose target path is the target directory joined with the same
\* relative path; a target tile is listed as target-only if and only if no
\* reference tile has its relative path, and it is the target of exactly one
\* pair otherwise.
C17_Enumeration ==
    pc = "imap" =>
        /\ \A rel \in DOMAIN refs :
              Cardinality({arg \in args : arg[1] = Path("reference", rel)}) = 1
        /\ \A arg \in args :
              arg[1].rel \in DOMAIN refs /\ arg[2] = Path("target", arg[1].rel)
        /\ \A s \in {Stem(rel) : rel \in EnumPaths \cup RelPaths} :
              Lines(targets_only, s)
                  = Cardinality({rel \in DOMAIN tgts : Stem(rel) = s /\ rel \notin DOMAIN refs})
        /\ \A rel \in DOMAIN tgts :
              Cardinality({arg \in args : arg[2] = Path("target", rel)})
                  = IF rel \in DOMAIN refs THEN 1 ELSE 0

\* ------------------------------------------------------------------ zero fill
\* mean and percentage_larger_than at thresholds that are not negative
ZeroFillConfigs ==
    {"mean" :> t : t \in 0..MaxVal}
        \cup {"percentage_larger_than" :> <<v, <<p, 2>>>> : v \in 0..MaxVal, p \in 0..2}

PixelCount(raster) == raster.RasterXSize * raster.RasterYSize

\* the statistics of the wide tile are computed over all its pixels and are not
\* above those of the narrow tile, and no verdict turns true
NotAbove(narrow, wide) ==
    /\ Mean(narrow)[2] = PixelCount(refs[TheTile])
    /\ Mean(wide)[2] = PixelCount(refs[WideTile])
    /\ Mean(wide)[1] * Mean(narrow)[2] <= Mean(narrow)[1] * Mean(wide)[2]
    /\ \A v \in 0..MaxVal :
          CountLargerThan(wide, v) * Len(narrow) <= CountLargerThan(narrow, v) * Len(wide)
    /\ \A m \in ZeroFillConfigs : \A name \in DOMAIN m :
          changed(m, Array(wide)).dict[name] => changed(m, Array(narrow)).dict[name]

\* C20 as claimed: the statistics count every pixel of the raster, the zeroed
\* nodata pixels included, so a tile with one more pixel, nodata in the
\* reference or in the target, has a mean and a fraction of larger pixels (for
\* a value threshold of at least 0) that are not above those of the tile.
C20_ZeroFillLowers ==
    fn.op = "zero_fill" =>
        /\ fn.narrow.kind = "array"
        /\ fn.wide.kind = "array"
        /\ NotAbove(fn.narrow.array, fn.wide.array)

\* C20, amended: the same for a tile whose rasters are not 1x1.
C20_ZeroFillLowers_NotOnePixel ==
    (fn.op = "zero_fill" /\ ~OneByOne(refs[TheTile])) =>
        /\ fn.narrow.kind = "array"
        /\ fn.wide.kind = "array"
        /\ fn.wide.array = Append(fn.narrow.array, 0)
        /\ NotAbove(fn.narrow.array, fn.wide.array)

\* C20 witness: a pixel that is nodata in the reference alone, where the target
\* holds another value, is added to a tile of two pixels: its mean goes down and
\* a verdict of mean turns from true to false
C20_Witness ==
    /\ fn.op = "zero_fill"
    /\ ~OneByOne(refs[TheTile])
    /\ fn.wide.array = Append(fn.narrow.array, 0)
    /\ refs[WideTile].array[3] \in refs[WideTile].nodata
    /\ tgts[WideTile].array[3] \notin tgts[WideTile].nodata
    /\ tgts[WideTile].array[3] # refs[WideTile].array[3]
    /\ \E m \in ZeroFillConfigs :
          /\ "mean" \in DOMAIN m
          /\ changed(m, fn.narrow).dict["mean"]
          /\ ~changed(m, fn.wide).dict["mean"]

\* ------------------------------------------------------------------ the summary
\* C22 as claimed: in the summary line of a completed run the changed count is
\* not greater than the total.
C22_ChangedAtMostTotal == pc = "done" => summary[1] <= summary[2]

\* ------------------------------------------------------------------ copy order
FailedAt(filetype, op) == \E f \in fn.failed : f.filetype = filetype /\ f.op = op

\* C24: in a call of copy_file the target is copied only after the reference was
\* copied: a target copy is never there without the reference copy of the tile,
\* and when the directory or the reference copy failed, the target copy was
\* neither made nor attempted.
C24_TargetAfterReference ==
    fn.op = "compare" =>
        \A filetype \in {"tif", "las"} :
            /\ Copy(filetype, "target", TheTile) \in fn.copied
                  => Copy(filetype, "reference", TheTile) \in fn.copied
            /\ (FailedAt(filetype, "mkdir") \/ FailedAt(filetype, "reference"))
                  => /\ Copy(filetype, "target", TheTile) \notin fn.copied
                     /\ ~FailedAt(filetype, "target")
            /\ FailedAt(filetype, "reference")
                  => Copy(filetype, "reference", TheTile) \notin fn.copied

\* C24 witness: the reference copy of the raster failed with a caught error, the
\* call went on to the point cloud and copied both of its files
C24_Witness ==
    /\ fn.op = "compare"
    /\ \E f \in fn.failed :
          f.filetype = "tif" /\ f.op = "reference" /\ f.kind \in ThreeKinds
    /\ fn.errors = 1
    /\ fn.copied = {Copy("las", "reference", TheTile), Copy("las", "target", TheTile)}
    /\ fn.ret.as_int = 1

\* ------------------------------------------------------------------ independence
\* the marker of a target raster file that does not exist
Missing == [RasterXSize |-> 0, RasterYSize |-> 0, array |-> <<>>, nodata |-> None]

\* the outcome and the verdict of a difference array under metrics m
Judged(m, d) ==
    LET v == changed(m, d)
    IN  [outcome |-> IF AnyTrue(v) THEN "Changed" ELSE "Unchanged", verdict |-> v]

\* the outcome and the verdict of a tile as a function of its reference raster,
\* its target raster (or Missing) and the metric configuration, and of nothing
\* else; "none" when the rasters cannot be compared
OutcomeOf(reference, target, m) ==
    IF target = Missing
    THEN [outcome |-> "Non-existing target", verdict |-> NoVerdict]
    ELSE IF OneByOne(reference) \/ OneByOne(target)
    THEN Judged(m, Array(<<0>>))
    ELSE IF \/ reference.RasterXSize # target.RasterXSize
            \/ reference.RasterYSize # target.RasterYSize
    THEN [outcome |-> "none", verdict |-> NoVerdict]
    ELSE Judged(m, Array(MaskedDifference(reference, target)))

OwnTarget(arg) == IF arg[2].rel \in DOMAIN tgts THEN tgts[arg[2].rel] ELSE Missing

Own(arg) == OutcomeOf(refs[arg[1].rel], OwnTarget(arg), metrics)

\* C21 as claimed, in the runs without any failing file operation: when the run
\* has stopped, every pair has the outcome its own two rasters and the metric
\* configuration determine, whatever the other tiles of the collection are.
C21_OutcomeOfOwnRasters ==
    (faults = 0 /\ Stopped) =>
        \A arg \in args :
            Own(arg).outcome # "none" => reported[arg] = Own(arg).outcome

\* every outcome given and every verdict handed back is the one of the pair's
\* own rasters under the metric configuration
OwnOutcomeOnly ==
    /\ \A arg \in args :
          reported[arg] \in Terminal => reported[arg] = Own(arg).outcome
    /\ \A i \in DOMAIN outq :
          LET job == outq[i].job
              r == outq[i].ret
          IN  /\ r.exception = "AssertionError" <=> Own(job).outcome = "none"
              /\ r.exception = "none" =>
                    /\ r.as_int = 1 <=> Own(job).outcome = "Changed"
                    /\ r.as_int = 0 <=> Own(job).outcome = "Unchanged"
                    /\ r.as_int = 0 - 1 <=> Own(job).outcome = "Non-existing target"
                    /\ r.as_int = 1 => r.changed_ = Own(job).verdict
                    /\ r.stem = Stem(job[1].rel)

\* no step changes the metric configuration or a raster
InputsKept == refs' = refs /\ tgts' = tgts /\ metrics' = metrics

\* C21, amended: an outcome a tile pair is given, and the verdict its task hands
\* back, depend only on its own reference raster, its own target raster and the
\* metric configuration, whatever other tiles are in the collection, whatever
\* the pool size and however the tasks interleave; no task changes the metric
\* configuration or a raster. (Whether the pair is given an outcome at all does
\* depend on the run: a run that aborts leaves pairs without one.)
C21_OwnRastersOnly == []OwnOutcomeOnly /\ [][InputsKept]_vars

\* C21 witness: a completed run of a pool of two in which two tiles with the
\* same rasters have the same outcome Changed next to a tile of other rasters
\* with another outcome
C21_Witness ==
    /\ pc = "done"
    /\ PoolSize = 2
    /\ \E a, b, c \in args :
          /\ a # b
          /\ refs[a[1].rel] = refs[b[1].rel]
          /\ OwnTarget(a) = OwnTarget(b)
          /\ reported[a] = "Changed" /\ reported[b] = "Changed"
          /\ OwnTarget(c) # OwnTarget(a)
          /\ reported[c] = "Unchanged"

\* ------------------------------------------------------------------ integer pixels
\* the pixels of the tile that are no-data in neither raster
Valid ==
    {i \in DOMAIN refs[TheTile].array :
        /\ refs[TheTile].array[i] \notin refs[TheTile].nodata
        /\ tgts[TheTile].array[i] \notin tgts[TheTile].nodata}

\* C23 as claimed: for two existing, equally sized, non-1x1 rasters of a
\* fixed-width integer type, difference(a, b) and difference(b, a) agree and are
\* the mathematical absolute difference |b - a| at every pixel that is no-data
\* in neither raster, without wrap-around.
C23_IntegerDifference ==
    (fn.op = "difference" /\ "a_b" \in DOMAIN fn) =>
        \A i \in Valid :
            /\ fn.a_b[i] = fn.b_a[i]
            /\ fn.a_b[i] = Abs(tgts[TheTile].array[i] - refs[TheTile].array[i])

\* ------------------------------------------------------------------ merge order
\* the pairs of an AHN4 file of data_dir and its AHN3/4 file, where that exists
FilePairs ==
    {<<f, ahn34_path(f)>> :
        f \in {g \in Ahn4Paths(merger.data_dir) : ahn34_path(g) \in merger.data_dir}}

SubsetStarted == \E arg \in DOMAIN merger.subset : merger.subset[arg] # "queued"

MergeStarted == \E arg \in DOMAIN merger.merge : merger.merge[arg] # "queued"

\* C25: in the merge run no merge task starts before the subset tasks of all
\* pairs have completed; with do_append_id the id file is fully written before
\* any subset task starts, and every subset task reads the full file; subset
\* and merge are each run at most once per enumerated pair, and exactly once
\* when the run has ended; the enumerated pairs are the AHN4 files whose AHN3/4
\* file exists, and an AHN4 file without it is run in neither stage.
C25_SubsetBeforeMerge ==
    merger.pc \notin {"none", "enumerate"} =>
        /\ merger.args = FilePairs
        /\ MergeStarted =>
              \A arg \in merger.args :
                  merger.subset[arg] = "finished" /\ merger.subset_runs[arg[1]] = 1
        /\ (merger.do_append_id /\ SubsetStarted) =>
              /\ merger.pc \notin {"append_id", "write_ids"}
              /\ merger.changed_temp = IdRecords(merger.changed_ids)
        /\ merger.do_append_id =>
              \A arg \in DOMAIN merger.subset_read :
                  merger.subset_read[arg] = IdRecords(merger.changed_ids)
        /\ \A arg \in merger.args :
              /\ merger.subset_runs[arg[1]] =
                    (IF merger.subset[arg] = "finished" THEN 1 ELSE 0)
              /\ merger.merge_runs[arg[1]] =
                    (IF merger.merge[arg] = "finished" THEN 1 ELSE 0)
              /\ merger.pc = "done" =>
                    merger.subset_runs[arg[1]] = 1 /\ merger.merge_runs[arg[1]] = 1
        /\ \A f \in Ahn4Paths(merger.data_dir) :
              ahn34_path(f) \notin merger.data_dir =>
                  /\ merger.subset_runs[f] = 0
                  /\ merger.merge_runs[f] = 0
                  /\ ahn34_path(f) \in merger.skipped

\* C25 witness: three pairs and a skipped AHN4 file, the id file written from a
\* change list of two lines over a stale one, all subsets done, one merge task
\* finished, one running and one still queued
C25_Witness ==
    /\ merger.pc = "merge"
    /\ merger.do_append_id
    /\ Len(merger.changed_ids) = 2
    /\ merger.skipped # {}
    /\ Cardinality(merger.args) >= 2
    /\ \E a, b \in merger.args :
          /\ merger.merge[a] = "finished"
          /\ merger.merge[b] = "queued"
          /\ merger.subset_runs[b[1]] = 1

====
